---------------------------- MODULE Spec2Model ----------------------------
(***************************************************************************)
(* A model of the UDP CoAP server of go-coap v2 (udp/server.go): the       *)
(* listener/dispatcher (Serve), shutdown (Stop, closeSessions), the        *)
(* session table guarded by connsMutex, the per-session goroutines that    *)
(* Serve starts (keep-alive, close watcher) and the message-id counter.    *)
(***************************************************************************)
EXTENDS Integers, FiniteSets, Sequences, TLC

(***************************************************************************)
(* Bounds of the model.                                                    *)
(***************************************************************************)
\* datagrams the socket delivers in one behaviour (so at most that many sessions)
MaxDatagrams == 2
\* calls of GetMID in one behaviour of SpecMID
MaxMIDCalls == 6

(***************************************************************************)
(* Program constants.                                                      *)
(***************************************************************************)
\* blockwise.SZX1024, the largest block-size exponent Serve accepts
SZX1024 == 6
\* the modulus GetMID applies to the counter (0xffff)
MIDModulus == 65535
\* 2^16: a uint32 is kept as two 16-bit limbs, a uint16 is a value below it
Two16 == 65536

\* peer address strings (raddr.String())
Keys == {"a", "b"}
NoKey == "none"
\* session identities: the n-th session the dispatcher creates is n
Sess == 1..MaxDatagrams
Nil == 0
\* the goroutines that call Serve, each once (1 names the one that calls it
\* first), and the goroutine that calls Stop, once
ServeThreads == {1, 2}
StopThread == 0
Procs == ServeThreads \cup {StopThread}

\* holders of connsMutex
Free == [kind |-> "free", id |-> 0]
ByProc(p) == [kind |-> "proc", id |-> p]
BySess(s) == [kind |-> "sess", id |-> s]

VARIABLES
    \* ---- options and configuration (fixed by NewServer)
    opt,               \* the option list NewServer was given
    blockwiseSZX,      \* s.blockwiseSZX
    keepalive,         \* s.keepalive: "set" or "nil"
    onNewClientConn,   \* s.onNewClientConn: "set" or "nil"
    \* ---- Server fields
    conns,             \* s.conns: key -> session (Nil: no entry)
    connsMutex,        \* holder of s.connsMutex
    cancelled,         \* s.ctx is done
    listen,            \* s.listen: Nil or the listener of the registered Serve
    chanId,            \* identity of the current s.serverStartedChan
    closedChans,       \* the started-channels that have been closed
    msgID,             \* s.msgID, a uint32 as [hi, lo] 16-bit limbs
    \* ---- goroutines calling Serve / Stop
    pc,                \* position of each calling goroutine
    raddr,             \* Serve: sender of the datagram just read
    cc,                \* Serve: session returned by getOrCreateClientConn
    created,           \* Serve: the created result
    rerr,              \* Serve: the error of the failed read ("nil": none)
    wg,                \* Serve: the WaitGroup counter
    result,            \* Serve: result of the last returned call ("none" while running)
    tmp,               \* closeSessions: sessions of the swapped-out table still to close
    \* ---- sessions
    nextSid,           \* number of sessions created so far
    sessKey,           \* key the session was created under
    sessOwner,         \* Serve goroutine that created it (owner of its wg)
    sessCancel,        \* the session's own context was cancelled (Close)
    closeFunc,         \* close watcher goroutine: "none", "waitDone", "onClose", "done"
    kaTask,            \* keep-alive goroutine: "none", "running", "done", "failed"
    newConnCalls,      \* times onNewClientConn was invoked with the session
    processCalls,      \* times Process was invoked on the session
    \* ---- observations
    errorSink,         \* number of errors handed to s.errors
    datagrams,         \* datagrams read so far
    stopSnapshot,      \* sessions in the table when the running Stop was called
    midCalls,          \* GetMID calls so far
    lastMID,           \* value returned by the last GetMID call
    prevMID,           \* value returned by the GetMID call before it (-1: none)
    \* ---- the goroutine calling conn()
    connPc,            \* "idle", "select" (waiting on the channel it read), "done"
    connChan,          \* conn: the serverStartedChan it read (-1: none)
    connResult         \* conn: the listener it returned (-1: not returned)

cfgVars == <<opt, blockwiseSZX, keepalive, onNewClientConn>>
srvVars == <<conns, connsMutex, cancelled, listen, chanId, closedChans>>
procVars == <<pc, raddr, cc, created, rerr, wg, result, tmp>>
sessVars == <<nextSid, sessKey, sessOwner, sessCancel, closeFunc, kaTask,
              newConnCalls, processCalls>>
obsVars == <<errorSink, datagrams, stopSnapshot>>
midVars == <<msgID, midCalls, lastMID, prevMID>>
connVars == <<connPc, connChan, connResult>>
vars == <<cfgVars, srvVars, procVars, sessVars, obsVars, midVars, connVars>>

(***************************************************************************)
(* NewServer: the defaults, overridden by the options in order.            *)
(***************************************************************************)
\* defaults that leave keep-alive off
defaultServerOptionsNoKeepAlive ==
    [keepalive |-> "nil", blockwiseSZX |-> SZX1024, onNewClientConn |-> "set"]

\* var defaultServerOptions: keepalive is keepalive.New(), not nil
defaultServerOptions ==
    [keepalive |-> "set", blockwiseSZX |-> SZX1024, onNewClientConn |-> "set"]

\* the options a caller may pass: each sets one field
WithKeepAlive(v) == [field |-> "keepalive", value |-> v]
WithBlockwiseSZX(v) == [field |-> "blockwiseSZX", value |-> v]
WithOnNewClientConn(v) == [field |-> "onNewClientConn", value |-> v]

apply(o, opts) ==
    CASE o.field = "keepalive" -> [opts EXCEPT !.keepalive = o.value]
      [] o.field = "blockwiseSZX" -> [opts EXCEPT !.blockwiseSZX = o.value]
      [] o.field = "onNewClientConn" -> [opts EXCEPT !.onNewClientConn = o.value]

RECURSIVE applyAll(_, _)
applyAll(os, opts) ==
    IF os = <<>> THEN opts ELSE applyAll(Tail(os), apply(Head(os), opts))

\* the option lists the model builds servers from
OptionLists ==
    { <<>>,
      <<WithKeepAlive("nil")>>,
      <<WithBlockwiseSZX(SZX1024 + 1)>> }

\* seeds of the message-id counter (rand.Read of 4 bytes), as [hi, lo]
MIDSeeds ==
    { [hi |-> h, lo |-> l] : h \in {0, 1, Two16 - 1},
                              l \in {0, 7, Two16 - 4, Two16 - 3, Two16 - 2} }
Seed0 == [hi |-> 0, lo |-> 0]

NewServer(os, seed) ==
    LET opts == applyAll(os, defaultServerOptions) IN
    /\ opt = os
    /\ blockwiseSZX = opts.blockwiseSZX
    /\ keepalive = opts.keepalive
    /\ onNewClientConn = opts.onNewClientConn
    /\ conns = [k \in Keys |-> Nil]
    /\ connsMutex = Free
    /\ cancelled = FALSE
    /\ listen = Nil
    /\ chanId = 0
    /\ closedChans = {}
    /\ msgID = seed

InitRest ==
    /\ pc = [p \in Procs |-> "idle"]
    /\ raddr = [t \in ServeThreads |-> NoKey]
    /\ cc = [t \in ServeThreads |-> Nil]
    /\ created = [t \in ServeThreads |-> FALSE]
    /\ rerr = [t \in ServeThreads |-> "nil"]
    /\ wg = [t \in ServeThreads |-> 0]
    /\ result = [t \in ServeThreads |-> "none"]
    /\ tmp = [p \in Procs |-> {}]
    /\ nextSid = 0
    /\ sessKey = [s \in Sess |-> NoKey]
    /\ sessOwner = [s \in Sess |-> Nil]
    /\ sessCancel = [s \in Sess |-> FALSE]
    /\ closeFunc = [s \in Sess |-> "none"]
    /\ kaTask = [s \in Sess |-> "none"]
    /\ newConnCalls = [s \in Sess |-> 0]
    /\ processCalls = [s \in Sess |-> 0]
    /\ errorSink = 0
    /\ datagrams = 0
    /\ stopSnapshot = {}
    /\ midCalls = 0
    /\ lastMID = -1
    /\ prevMID = -1
    /\ connPc = "idle"
    /\ connChan = -1
    /\ connResult = -1

Init ==
    /\ \E os \in OptionLists : NewServer(os, Seed0)
    /\ InitRest

(***************************************************************************)
(* Contexts.  A session's context is derived from s.ctx (NewSession is     *)
(* given s.ctx), so it is done once the server is cancelled or the session *)
(* itself is closed.                                                       *)
(***************************************************************************)
ctxDone(s) == cancelled \/ sessCancel[s]

\* cc.Close(): cancels the session's context
Close(s) == sessCancel' = [sessCancel EXCEPT ![s] = TRUE]

\* the sessions the table holds
TableSessions == { conns[k] : k \in { x \in Keys : conns[x] # Nil } }

(***************************************************************************)
(* Serve                                                                   *)
(***************************************************************************)
\* a checkAndSetListener that registers l without looking at s.listen
checkAndSetListenerNoCheck(l, err) ==
    /\ err = "nil"
    /\ listen' = l
    /\ closedChans' = closedChans \cup {chanId}

\* checkAndSetListener(l): err is its result
checkAndSetListener(l, err) ==
    IF listen # Nil
    THEN /\ err = "errAlreadyServe"
         /\ UNCHANGED <<listen, closedChans>>
    ELSE /\ err = "nil"
         /\ listen' = l
         /\ closedChans' = closedChans \cup {chanId}

\* a block-size check that lets every exponent through
InvalidSZXNever == FALSE

\* if s.blockwiseSZX > blockwise.SZX1024 { return error }
InvalidSZX == blockwiseSZX > SZX1024

\* Serve, from the call to the first read: the SZX check and checkAndSetListener
\* (the goroutines are numbered in the order of their calls)
ServeCall(t) ==
    /\ pc[t] = "idle"
    /\ \A u \in ServeThreads : u < t => pc[u] # "idle"
    /\ IF InvalidSZX
       THEN /\ result' = [result EXCEPT ![t] = "errInvalidSZX"]
            /\ pc' = [pc EXCEPT ![t] = "done"]
            /\ UNCHANGED <<listen, closedChans>>
       ELSE \E err \in {"nil", "errAlreadyServe"} :
            /\ checkAndSetListener(t, err)
            /\ IF err # "nil"
               THEN /\ result' = [result EXCEPT ![t] = err]
                    /\ pc' = [pc EXCEPT ![t] = "done"]
               ELSE /\ UNCHANGED result
                    /\ pc' = [pc EXCEPT ![t] = "read"]
    /\ UNCHANGED <<cfgVars, conns, connsMutex, cancelled, chanId, raddr, cc, created,
                   rerr, wg, tmp, sessVars, errorSink, datagrams, stopSnapshot, midVars, connVars>>

\* a read that is also started while Process is still running on the buffer
ReadDatagramEarly(t, k) ==
    /\ pc[t] \in {"read", "process"}
    /\ ~cancelled
    /\ datagrams < MaxDatagrams
    /\ datagrams' = datagrams + 1
    /\ raddr' = [raddr EXCEPT ![t] = k]
    /\ pc' = [pc EXCEPT ![t] = "getLock"]
    /\ UNCHANGED <<cfgVars, srvVars, cc, created, rerr, wg, result, tmp, sessVars,
                   errorSink, stopSnapshot, midVars, connVars>>

\* l.ReadWithContext returns a datagram sent by k
ReadDatagram(t, k) ==
    /\ pc[t] = "read"
    /\ ~cancelled
    /\ datagrams < MaxDatagrams
    /\ datagrams' = datagrams + 1
    /\ raddr' = [raddr EXCEPT ![t] = k]
    /\ pc' = [pc EXCEPT ![t] = "getLock"]
    /\ UNCHANGED <<cfgVars, srvVars, cc, created, rerr, wg, result, tmp, sessVars,
                   errorSink, stopSnapshot, midVars, connVars>>

\* l.ReadWithContext fails with a socket error
ReadSocketError(t) ==
    /\ pc[t] = "read"
    /\ ~cancelled
    /\ rerr' = [rerr EXCEPT ![t] = "readErr"]
    /\ pc' = [pc EXCEPT ![t] = "wgWait"]
    /\ UNCHANGED <<cfgVars, srvVars, raddr, cc, created, wg, result, tmp, sessVars,
                   obsVars, midVars, connVars>>

\* l.ReadWithContext fails because s.ctx is done
ReadCancelled(t) ==
    /\ pc[t] = "read"
    /\ cancelled
    /\ rerr' = [rerr EXCEPT ![t] = "ctxErr"]
    /\ pc' = [pc EXCEPT ![t] = "wgWait"]
    /\ UNCHANGED <<cfgVars, srvVars, raddr, cc, created, wg, result, tmp, sessVars,
                   obsVars, midVars, connVars>>

\* getOrCreateClientConn: s.connsMutex.Lock()
GetOrCreateLock(t) ==
    /\ pc[t] = "getLock"
    /\ connsMutex = Free
    /\ connsMutex' = ByProc(t)
    /\ pc' = [pc EXCEPT ![t] = "getBody"]
    /\ UNCHANGED <<cfgVars, conns, cancelled, listen, chanId, closedChans, raddr, cc,
                   created, rerr, wg, result, tmp, sessVars, obsVars, midVars, connVars>>

\* a lookup that never finds the session
LookupAlwaysMisses(key) == Nil

\* cc = s.conns[key]
Lookup(key) == conns[key]

\* a created result that is set on a hit too
CreatedAlways(found) == TRUE

\* if cc == nil { created = true ... }: the created result
Created(found) == found = Nil

\* getOrCreateClientConn: the body under the mutex, and the deferred Unlock;
\* Serve then branches on created
GetOrCreateClientConn(t) ==
    /\ pc[t] = "getBody"
    /\ LET key == raddr[t]
           found == Lookup(key)
           sid == nextSid + 1
       IN /\ created' = [created EXCEPT ![t] = Created(found)]
          /\ pc' = [pc EXCEPT ![t] = IF Created(found) THEN "created" ELSE "process"]
          /\ IF found = Nil
             THEN /\ nextSid' = sid
                  /\ sessKey' = [sessKey EXCEPT ![sid] = key]
                  /\ sessOwner' = [sessOwner EXCEPT ![sid] = t]
                  /\ conns' = [conns EXCEPT ![key] = sid]
                  /\ cc' = [cc EXCEPT ![t] = sid]
             ELSE /\ cc' = [cc EXCEPT ![t] = found]
                  /\ UNCHANGED <<nextSid, sessKey, sessOwner, conns>>
    /\ connsMutex' = Free
    /\ UNCHANGED <<cfgVars, cancelled, listen, chanId, closedChans, raddr, rerr, wg,
                   result, tmp, sessCancel, closeFunc, kaTask, newConnCalls,
                   processCalls, obsVars, midVars, connVars>>

\* s.keepalive != nil
KeepAliveConfigured == keepalive # "nil"

\* if created { ... }: the new-peer callback (if any) is called, then the
\* keep-alive goroutine (if configured) and the close watcher are started
OnCreated(t) ==
    /\ pc[t] = "created"
    /\ IF onNewClientConn # "nil"
       THEN newConnCalls' = [newConnCalls EXCEPT ![cc[t]] = @ + 1]
       ELSE UNCHANGED newConnCalls
    /\ IF KeepAliveConfigured
       THEN /\ kaTask' = [kaTask EXCEPT ![cc[t]] = "running"]
            /\ wg' = [wg EXCEPT ![t] = @ + 2]
       ELSE /\ wg' = [wg EXCEPT ![t] = @ + 1]
            /\ UNCHANGED kaTask
    /\ closeFunc' = [closeFunc EXCEPT ![cc[t]] = "waitDone"]
    /\ pc' = [pc EXCEPT ![t] = "process"]
    /\ UNCHANGED <<cfgVars, srvVars, raddr, cc, created, rerr, result, tmp,
                   nextSid, sessKey, sessOwner, sessCancel, processCalls, obsVars,
                   midVars, connVars>>

\* an error path that closes every session
OnProcessErrorClosesAll(s) == sessCancel' = [x \in Sess |-> TRUE]

\* what Serve does with the session whose Process failed: cc.Close()
OnProcessError(s) == Close(s)

\* err = cc.Process(buf); if err != nil { cc.Close(); s.errors(err) }; ok: err == nil
Process(t, ok) ==
    /\ pc[t] = "process"
    /\ processCalls' = [processCalls EXCEPT ![cc[t]] = @ + 1]
    /\ IF ok
       THEN UNCHANGED <<sessCancel, errorSink>>
       ELSE /\ OnProcessError(cc[t])
            /\ errorSink' = errorSink + 1
    /\ pc' = [pc EXCEPT ![t] = "read"]
    /\ raddr' = [raddr EXCEPT ![t] = NoKey]
    /\ cc' = [cc EXCEPT ![t] = Nil]
    /\ created' = [created EXCEPT ![t] = FALSE]
    /\ UNCHANGED <<cfgVars, srvVars, rerr, wg, result, tmp, nextSid, sessKey,
                   sessOwner, closeFunc, kaTask, newConnCalls, datagrams, stopSnapshot,
                   midVars, connVars>>

\* a return that hands back the read's error without looking at s.ctx
SelectResultNoCtx(t) == rerr[t]

\* select { case <-s.ctx.Done(): return nil; default: return err }
SelectResult(t) == IF cancelled THEN "nil" ELSE rerr[t]

\* a return that does not wait for the goroutines of the sessions
ServeReturnNoWait(t) ==
    /\ pc[t] = "wgWait"
    /\ result' = [result EXCEPT ![t] = SelectResult(t)]
    /\ rerr' = [rerr EXCEPT ![t] = "nil"]
    /\ pc' = [pc EXCEPT ![t] = "csLock"]
    /\ UNCHANGED <<cfgVars, srvVars, raddr, cc, created, wg, tmp, sessVars, obsVars,
                   midVars, connVars>>

\* after the failed read: wg.Wait(), then the select that returns; the deferred
\* function runs next
ServeReturn(t) ==
    /\ pc[t] = "wgWait"
    /\ wg[t] = 0
    /\ result' = [result EXCEPT ![t] = SelectResult(t)]
    /\ rerr' = [rerr EXCEPT ![t] = "nil"]
    /\ pc' = [pc EXCEPT ![t] = "csLock"]
    /\ UNCHANGED <<cfgVars, srvVars, raddr, cc, created, wg, tmp, sessVars, obsVars,
                   midVars, connVars>>

(***************************************************************************)
(* closeSessions, called by Stop and by the deferred function of Serve     *)
(***************************************************************************)
\* where the caller of closeSessions continues
AfterCloseSessions(p) == IF p = StopThread THEN "done" ELSE "deferListen"

\* closeSessions returns: to Stop's caller when Stop called it (the record of the
\* table at the call is dropped), into the deferred function of Serve otherwise
StopReturns(p) ==
    IF p = StopThread
    THEN stopSnapshot' = {}
    ELSE UNCHANGED stopSnapshot

\* closeSessions: s.connsMutex.Lock()
CloseSessionsLock(p) ==
    /\ pc[p] = "csLock"
    /\ connsMutex = Free
    /\ connsMutex' = ByProc(p)
    /\ pc' = [pc EXCEPT ![p] = "csSwap"]
    /\ UNCHANGED <<cfgVars, conns, cancelled, listen, chanId, closedChans, raddr, cc,
                   created, rerr, wg, result, tmp, sessVars, obsVars, midVars, connVars>>

\* a closeSessions that keeps the mutex while it closes the sessions
MutexKeptAfterSwap(p) == ByProc(p)

\* the mutex after "tmp := s.conns; s.conns = make(...)": s.connsMutex.Unlock()
MutexAfterSwap(p) == Free

\* closeSessions: tmp := s.conns; s.conns = make(map...); s.connsMutex.Unlock()
CloseSessionsSwap(p) ==
    /\ pc[p] = "csSwap"
    /\ tmp' = [tmp EXCEPT ![p] = TableSessions]
    /\ conns' = [k \in Keys |-> Nil]
    /\ connsMutex' = MutexAfterSwap(p)
    /\ IF TableSessions = {}
       THEN /\ pc' = [pc EXCEPT ![p] = AfterCloseSessions(p)]
            /\ StopReturns(p)
       ELSE /\ pc' = [pc EXCEPT ![p] = "csClose"]
            /\ UNCHANGED stopSnapshot
    /\ UNCHANGED <<cfgVars, cancelled, listen, chanId, closedChans, raddr, cc, created,
                   rerr, wg, result, sessVars, errorSink, datagrams, midVars, connVars>>

\* an iteration of the loop that leaves the session open
CloseSessionsCloseSkips(p, s) ==
    /\ pc[p] = "csClose"
    /\ s \in tmp[p]
    /\ tmp' = [tmp EXCEPT ![p] = @ \ {s}]
    /\ IF tmp[p] = {s}
       THEN /\ pc' = [pc EXCEPT ![p] = AfterCloseSessions(p)]
            /\ StopReturns(p)
       ELSE UNCHANGED <<pc, stopSnapshot>>
    /\ UNCHANGED <<cfgVars, srvVars, raddr, cc, created, rerr, wg, result, sessVars,
                   errorSink, datagrams, midVars, connVars>>

\* closeSessions: one iteration of "for _, v := range tmp { v.Close() }"
CloseSessionsClose(p, s) ==
    /\ pc[p] = "csClose"
    /\ s \in tmp[p]
    /\ Close(s)
    /\ tmp' = [tmp EXCEPT ![p] = @ \ {s}]
    /\ IF tmp[p] = {s}
       THEN /\ pc' = [pc EXCEPT ![p] = AfterCloseSessions(p)]
            /\ StopReturns(p)
       ELSE UNCHANGED <<pc, stopSnapshot>>
    /\ UNCHANGED <<cfgVars, srvVars, raddr, cc, created, rerr, wg, result, nextSid,
                   sessKey, sessOwner, closeFunc, kaTask, newConnCalls, processCalls,
                   errorSink, datagrams, midVars, connVars>>

\* a deferred function that leaves the listener registered
ServeDeferListenKept(t) ==
    /\ pc[t] = "deferListen"
    /\ chanId' = chanId + 1
    /\ pc' = [pc EXCEPT ![t] = "done"]
    /\ UNCHANGED <<cfgVars, conns, connsMutex, cancelled, listen, closedChans, raddr,
                   cc, created, rerr, wg, result, tmp, sessVars, obsVars, midVars, connVars>>

\* the rest of Serve's deferred function: s.listen = nil and a fresh started-channel
ServeDeferListen(t) ==
    /\ pc[t] = "deferListen"
    /\ listen' = Nil
    /\ chanId' = chanId + 1
    /\ pc' = [pc EXCEPT ![t] = "done"]
    /\ UNCHANGED <<cfgVars, conns, connsMutex, cancelled, closedChans, raddr, cc,
                   created, rerr, wg, result, tmp, sessVars, obsVars, midVars, connVars>>

(***************************************************************************)
(* Stop: s.cancel(), then closeSessions                                    *)
(***************************************************************************)
StopCall ==
    /\ pc[StopThread] = "idle"
    /\ cancelled' = TRUE
    /\ stopSnapshot' = TableSessions
    /\ pc' = [pc EXCEPT ![StopThread] = "csLock"]
    /\ UNCHANGED <<cfgVars, conns, connsMutex, listen, chanId, closedChans, raddr, cc,
                   created, rerr, wg, result, tmp, sessVars, errorSink, datagrams,
                   midVars, connVars>>

(***************************************************************************)
(* The goroutines Serve starts for a created session                       *)
(***************************************************************************)
\* closeFunc: <-session.Context().Done(), then session.close() runs the on-close
\* callback, which starts with s.connsMutex.Lock()
CloseFuncLock(s) ==
    /\ closeFunc[s] = "waitDone"
    /\ ctxDone(s)
    /\ connsMutex = Free
    /\ connsMutex' = BySess(s)
    /\ closeFunc' = [closeFunc EXCEPT ![s] = "onClose"]
    /\ UNCHANGED <<cfgVars, conns, cancelled, listen, chanId, closedChans, procVars,
                   nextSid, sessKey, sessOwner, sessCancel, kaTask, newConnCalls,
                   processCalls, obsVars, midVars, connVars>>

\* the on-close callback: delete(s.conns, key); Unlock; then wg.Done()
OnCloseDelete(s) ==
    /\ closeFunc[s] = "onClose"
    /\ conns' = [conns EXCEPT ![sessKey[s]] = Nil]
    /\ connsMutex' = Free
    /\ closeFunc' = [closeFunc EXCEPT ![s] = "done"]
    /\ wg' = [wg EXCEPT ![sessOwner[s]] = @ - 1]
    /\ UNCHANGED <<cfgVars, cancelled, listen, chanId, closedChans, pc, raddr, cc,
                   created, rerr, result, tmp, nextSid, sessKey, sessOwner, sessCancel,
                   kaTask, newConnCalls, processCalls, obsVars, midVars, connVars>>

\* s.keepalive.Run(cc) returns because the session's context is done
KeepaliveExit(s) ==
    /\ kaTask[s] = "running"
    /\ ctxDone(s)
    /\ kaTask' = [kaTask EXCEPT ![s] = "done"]
    /\ wg' = [wg EXCEPT ![sessOwner[s]] = @ - 1]
    /\ UNCHANGED <<cfgVars, srvVars, pc, raddr, cc, created, rerr, result, tmp,
                   nextSid, sessKey, sessOwner, sessCancel, closeFunc, newConnCalls,
                   processCalls, obsVars, midVars, connVars>>

\* a keep-alive goroutine that drops the error of Run
ForwardErrorDropped(e) == errorSink' = errorSink

\* the keep-alive goroutine after Run: if err != nil { s.errors(err) }; e: err != nil
ForwardError(e) == errorSink' = IF e THEN errorSink + 1 ELSE errorSink

\* the keep-alive ping of a live session fails: the session is closed and Run
\* returns, with an error (e, the task ends as "failed") or without
KeepaliveFail(s, e) ==
    /\ kaTask[s] = "running"
    /\ ~ctxDone(s)
    /\ Close(s)
    /\ ForwardError(e)
    /\ kaTask' = [kaTask EXCEPT ![s] = IF e THEN "failed" ELSE "done"]
    /\ wg' = [wg EXCEPT ![sessOwner[s]] = @ - 1]
    /\ UNCHANGED <<cfgVars, srvVars, pc, raddr, cc, created, rerr, result, tmp,
                   nextSid, sessKey, sessOwner, closeFunc, newConnCalls, processCalls,
                   datagrams, stopSnapshot,
                   midVars, connVars>>

(***************************************************************************)
(* The server as a state machine                                           *)
(***************************************************************************)
ServeStep(t) ==
    \/ ReadCancelled(t)
    \/ GetOrCreateLock(t)
    \/ GetOrCreateClientConn(t)
    \/ OnCreated(t)
    \/ \E ok \in BOOLEAN : Process(t, ok)
    \/ ServeReturn(t)
    \/ ServeDeferListen(t)

CloseSessionsStep(p) ==
    \/ CloseSessionsLock(p)
    \/ CloseSessionsSwap(p)
    \/ \E s \in Sess : CloseSessionsClose(p, s)

TaskStep(s) ==
    \/ CloseFuncLock(s)
    \/ OnCloseDelete(s)
    \/ KeepaliveExit(s)

Next ==
    \/ \E t \in ServeThreads : ServeCall(t)
    \/ \E t \in ServeThreads, k \in Keys : ReadDatagram(t, k)
    \/ \E t \in ServeThreads : ReadSocketError(t)
    \/ \E t \in ServeThreads : ServeStep(t)
    \/ \E p \in Procs : CloseSessionsStep(p)
    \/ StopCall
    \/ \E s \in Sess : TaskStep(s)
    \/ \E s \in Sess, e \in BOOLEAN : KeepaliveFail(s, e)

Spec == Init /\ [][Next]_vars

\* The Go scheduler runs every runnable goroutine, and a goroutine that waits for
\* a mutex gets it once it is free; the arrival of datagrams, socket errors, the
\* failure of a keep-alive ping, and the calls of Serve and Stop are the
\* environment's and are not forced.
Fairness ==
    /\ \A t \in ServeThreads : WF_vars(ServeStep(t))
    /\ \A p \in Procs : WF_vars(CloseSessionsStep(p))
    /\ \A s \in Sess : WF_vars(TaskStep(s))

FairSpec == Spec /\ Fairness

(***************************************************************************)
(* conn(), called once by a goroutine of its own                           *)
(***************************************************************************)
\* conn: serverStartedChan := s.serverStartedChan (under listenMutex)
ConnCall ==
    /\ connPc = "idle"
    /\ connChan' = chanId
    /\ connPc' = "select"
    /\ UNCHANGED <<cfgVars, srvVars, procVars, sessVars, obsVars, midVars, connResult>>

\* conn: the select passes (the channel it read is closed, or s.ctx is done) and
\* it returns s.listen.  The channel stays closed and the context stays done, so
\* the listener read at any later moment is one this step can return.
ConnReturn ==
    /\ connPc = "select"
    /\ connChan \in closedChans \/ cancelled
    /\ connResult' = listen
    /\ connPc' = "done"
    /\ UNCHANGED <<cfgVars, srvVars, procVars, sessVars, obsVars, midVars, connChan>>

NextConn ==
    \/ Next
    \/ ConnCall
    \/ ConnReturn

SpecConn == Init /\ [][NextConn]_vars

(***************************************************************************)
(* GetMID.  A uint32 is the pair of its 16-bit limbs, value hi * 2^16 + lo  *)
(***************************************************************************)
\* atomic.AddUint32(&s.msgID, 1): the new value, wrapping at 2^32
AddUint32(m) ==
    IF m.lo = Two16 - 1
    THEN [hi |-> (m.hi + 1) % Two16, lo |-> 0]
    ELSE [hi |-> m.hi, lo |-> m.lo + 1]

\* m % 0xffff; as 2^16 mod 0xffff = 1, (hi * 2^16 + lo) mod 0xffff = (hi + lo) mod 0xffff
ModMID(m) == ((m.hi % MIDModulus) + (m.lo % MIDModulus)) % MIDModulus

\* the conversion uint16(x)
uint16(x) == x % Two16

\* return uint16(atomic.AddUint32(&s.msgID, 1) % 0xffff)
GetMID ==
    /\ midCalls < MaxMIDCalls
    /\ midCalls' = midCalls + 1
    /\ msgID' = AddUint32(msgID)
    /\ lastMID' = uint16(ModMID(msgID'))
    /\ prevMID' = lastMID
    /\ UNCHANGED <<cfgVars, conns, connsMutex, cancelled, listen, chanId, closedChans,
                   procVars, sessVars, obsVars, connVars>>

InitMID ==
    /\ \E seed \in MIDSeeds : NewServer(<<>>, seed)
    /\ InitRest

NextMID == GetMID

SpecMID == InitMID /\ [][NextMID]_vars

(***************************************************************************)
(* Properties                                                              *)
(***************************************************************************)
\* a Serve call that registered its listener and has not yet left its loop
InLoop(t) == pc[t] \in {"read", "getLock", "getBody", "created", "process", "wgWait"}
\* a Serve call in progress, its deferred function included
Active(t) == pc[t] \notin {"idle", "done"}
\* the sessions created so far
CreatedSessions == 1..nextSid

\* C1, one step of the dispatcher: getOrCreateClientConn, for the datagram of
\* sender raddr[t], returns the session the table holds under that key and
\* creates nothing, or, when the table holds none, creates exactly one session
\* and inserts it under that key
C1_LookupStep(t) ==
    (pc[t] = "getBody" /\ pc'[t] # "getBody") =>
        LET key == raddr[t] IN
        IF conns[key] # Nil
        THEN /\ cc'[t] = conns[key]
             /\ conns' = conns
             /\ nextSid' = nextSid
        ELSE /\ nextSid' = nextSid + 1
             /\ cc'[t] = nextSid'
             /\ sessKey'[nextSid'] = key
             /\ conns' = [conns EXCEPT ![key] = nextSid']

\* C1, the hand-over: the session returned by the lookup is the one whose
\* Process gets the datagram
C1_HandOver(t) ==
    /\ (pc[t] = "created" /\ pc'[t] # "created") => (pc'[t] = "process" /\ cc'[t] = cc[t])
    /\ (pc[t] = "process" /\ pc'[t] # "process") =>
           processCalls' = [processCalls EXCEPT ![cc[t]] = @ + 1]

\* C1, the table: an entry under key k is a session of peer k, so no two entries
\* hold sessions of the same peer
C1_OnePerKey ==
    /\ \A k \in Keys : conns[k] # Nil => (conns[k] \in CreatedSessions /\ sessKey[conns[k]] = k)
    /\ \A k \in Keys : Cardinality({ s \in TableSessions : sessKey[s] = k }) <= 1

\* C1: every datagram read by Serve is dispatched under its sender's key: a hit
\* hands it to the session in the table and creates none, a miss creates exactly
\* one session, inserts it under the key and hands the datagram to it; the table
\* never holds more than one session per peer key.
C1_Dispatch ==
    /\ [][\A t \in ServeThreads : C1_LookupStep(t) /\ C1_HandOver(t)]_vars
    /\ []C1_OnePerKey

\* a datagram found an existing session (created by an earlier datagram) and is
\* about to be processed by it
C1_Witness ==
    \E t \in ServeThreads :
        /\ pc[t] = "process"
        /\ ~created[t]
        /\ conns[raddr[t]] = cc[t]
        /\ processCalls[cc[t]] = 1

\* C2: the new-peer callback is invoked exactly once for each session the
\* dispatcher creates, before the session's first Process call, and not again
\* for a datagram that found the session in the table.
C2_CallbackOnce ==
    onNewClientConn # "nil" =>
        \A s \in Sess :
            /\ newConnCalls[s] <= 1
            /\ newConnCalls[s] = 1 => s \in CreatedSessions
            /\ processCalls[s] > 0 => newConnCalls[s] = 1
            /\ (s \in CreatedSessions /\ \A t \in ServeThreads : ~(pc[t] = "created" /\ cc[t] = s))
                   => newConnCalls[s] = 1

\* a session has processed two datagrams (the second one found it in the table)
\* and the callback ran once for it
C2_Witness ==
    \E s \in Sess : processCalls[s] = 2 /\ newConnCalls[s] = 1

\* C3: GetMID increments the counter by one (wrapping at 2^32) and returns the
\* new counter modulo 65536 (its low 16 bits), so successive message ids differ
\* by one modulo 65536.
C3_MIDMod65536 ==
    midCalls > 0 =>
        /\ lastMID = msgID.lo
        /\ prevMID >= 0 => lastMID = (prevMID + 1) % Two16

\* C4: a socket read error while the server is not cancelled makes Serve return,
\* with that error, whether or not sessions are live and without a call of Stop.
\* (Stated for the runs in which no keep-alive task is running at the failed read,
\* so that no failing ping can close a session later; a Stop that comes in
\* meanwhile is let through: Serve then returns nil.)
C4_ReadErrorEndsServe ==
    \A t \in ServeThreads :
        (/\ pc[t] = "wgWait" /\ rerr[t] = "readErr" /\ ~cancelled
         /\ \A s \in Sess : kaTask[s] # "running")
            ~> ((pc[t] = "done" /\ result[t] = "readErr") \/ cancelled)

\* C5: once Stop is called while a Serve call is in its loop, that call
\* eventually returns, and returns nil; Stop itself returns.
C5_StopEndsServe ==
    /\ \A t \in ServeThreads :
           (cancelled /\ InLoop(t)) ~> (pc[t] = "done" /\ result[t] = "nil")
    /\ [][\A t \in ServeThreads :
              (cancelled /\ InLoop(t) /\ ~InLoop(t)') => result'[t] = "nil"]_vars
    /\ cancelled ~> (pc[StopThread] = "done")

\* Stop has returned while a Serve call it cancelled is still in its loop, with a
\* session's goroutines still to finish
C5_Witness ==
    /\ pc[StopThread] = "done"
    /\ \E t \in ServeThreads : pc[t] = "wgWait" /\ wg[t] > 0

\* the step in which Stop returns
StopReturnStep == pc[StopThread] # "done" /\ pc'[StopThread] = "done"

\* C6: cancelling the server closes all sessions: when Stop returns, every
\* session that was in the table when Stop was called is out of the table and
\* closed (Close was called on it, or its close watcher has already run), and
\* every session the dispatcher creates, also concurrently with or after the
\* cancellation, is eventually closed by its close watcher.
C6_StopClosesSessions ==
    /\ [][StopReturnStep =>
            \A s \in stopSnapshot :
                /\ s \notin TableSessions'
                /\ sessCancel'[s] \/ closeFunc'[s] = "done"]_vars
    /\ \A s \in Sess :
           (cancelled /\ s \in CreatedSessions) ~> (closeFunc[s] = "done")

\* Stop is closing a session that was in the table when it was called, while a
\* session created after Stop swapped the table sits in the new table
C6_Witness ==
    /\ pc[StopThread] = "csClose"
    /\ stopSnapshot \cap tmp[StopThread] # {}
    /\ TableSessions \ stopSnapshot # {}

\* C7: a Process failure for one datagram leaves the peer's session open and in
\* the session table.
C7_ProcessErrorKeepsSession ==
    [][\A t \in ServeThreads :
          (pc[t] = "process" /\ pc'[t] # "process" /\ errorSink' # errorSink) =>
              /\ sessCancel'[cc[t]] = sessCancel[cc[t]]
              /\ conns' = conns]_vars

\* where the goroutine that holds connsMutex is: inside the lookup/insert of
\* getOrCreateClientConn, the swap of closeSessions or the delete of an on-close
\* callback
C8_HolderInTableCode ==
    /\ connsMutex.kind = "proc" => pc[connsMutex.id] \in {"getBody", "csSwap"}
    /\ connsMutex.kind = "sess" => closeFunc[connsMutex.id] = "onClose"

\* the holder of connsMutex can always take its next step, which releases it
C8_HolderRuns ==
    /\ connsMutex.kind = "proc" =>
           ENABLED (GetOrCreateClientConn(connsMutex.id) \/ CloseSessionsSwap(connsMutex.id))
    /\ connsMutex.kind = "sess" => ENABLED OnCloseDelete(connsMutex.id)

\* C8: the session table is read and written only under connsMutex, and the
\* mutex is held for lookup/insert/delete only: no Close, Process or new-peer
\* callback runs in a step of its holder, and the holder is never blocked, so
\* closing sessions cannot deadlock on it.
C8_MutexDiscipline ==
    /\ []C8_HolderInTableCode
    /\ []C8_HolderRuns
    /\ [][conns' # conns => connsMutex # Free /\ connsMutex' = Free]_vars
    /\ [][\A t \in ServeThreads :
              (pc[t] = "getBody" /\ pc'[t] # "getBody") => connsMutex = ByProc(t)]_vars
    /\ [][(sessCancel' # sessCancel \/ processCalls' # processCalls
              \/ newConnCalls' # newConnCalls) =>
              /\ connsMutex' = connsMutex
              /\ connsMutex.kind = "proc" => pc'[connsMutex.id] = pc[connsMutex.id]
              /\ connsMutex.kind = "sess" =>
                     closeFunc'[connsMutex.id] = closeFunc[connsMutex.id]]_vars

\* an on-close callback holds the mutex while Stop is in its closing loop and the
\* dispatcher waits for the mutex
C8_Witness ==
    /\ connsMutex.kind = "sess"
    /\ pc[StopThread] = "csClose"
    /\ \E t \in ServeThreads : pc[t] = "getLock"

\* C9: a Serve call made while another Serve call is active returns the
\* "already serve" error and leaves the listener, the started-channel and the
\* session table as they were; the active call goes on.
C9_SecondServeRejected ==
    [][\A t \in ServeThreads :
          (/\ pc[t] = "idle" /\ pc'[t] # "idle"
           /\ \E u \in ServeThreads \ {t} : Active(u)) =>
              /\ pc'[t] = "done"
              /\ result'[t] = "errAlreadyServe"
              /\ UNCHANGED <<listen, chanId, closedChans, conns>>
              /\ \A u \in ServeThreads \ {t} : pc'[u] = pc[u]]_vars

\* a second Serve call was rejected while the first is dispatching a datagram
C9_Witness ==
    /\ pc[2] = "done"
    /\ result[2] = "errAlreadyServe"
    /\ pc[1] = "process"
    /\ listen = 1

Dispatching(t) == pc[t] \in {"getLock", "getBody", "created", "process"}
\* a Serve call that registered its listener and has returned
Returned(t) == pc[t] = "done" /\ result[t] \in {"nil", "readErr"}

\* C11: Serve is single-shot: once a Serve call has returned (after cancellation
\* or after a socket error), no later Serve call registers a listener and
\* dispatches datagrams.
C11_SingleShot ==
    \A u \in ServeThreads : Returned(u) =>
        \A t \in ServeThreads \ {u} : ~Dispatching(t)

\* C11 as amended: Serve can be called again once a Serve call has returned: a
\* call made while no other call is active (and the block size is valid)
\* registers its listener on the current started-channel and enters the read
\* loop; once the server is cancelled its reads deliver no datagram and the call
\* returns nil, while after a socket-error return the later call dispatches
\* datagrams as the first one did.
C11_RestartAfterReturn ==
    /\ [][\A t \in ServeThreads :
              (/\ pc[t] = "idle" /\ pc'[t] # "idle"
               /\ blockwiseSZX <= SZX1024
               /\ \A u \in ServeThreads \ {t} : ~Active(u)) =>
                  /\ pc'[t] = "read"
                  /\ listen' = t
                  /\ chanId \in closedChans']_vars
    /\ [][\A t \in ServeThreads :
              (cancelled /\ pc[t] = "read" /\ pc'[t] # "read") =>
                  /\ pc'[t] = "wgWait"
                  /\ datagrams' = datagrams]_vars
    /\ [][\A t \in ServeThreads :
              (cancelled /\ pc[t] = "wgWait" /\ pc'[t] # "wgWait") =>
                  result'[t] = "nil"]_vars

\* the first Serve call returned the socket error and the second one, called
\* afterwards, is registered and about to process a datagram
C11_Witness ==
    /\ pc[1] = "done" /\ result[1] = "readErr" /\ ~cancelled
    /\ listen = 2
    /\ pc[2] = "process"

\* C12: a Process failure for one peer's datagram does not end the Serve loop and
\* does not close or remove any other peer's session; the error is delivered to
\* the error sink exactly once and the loop goes on to read the next datagram.
\* (A step that leaves Process either succeeded, and then the error sink and all
\* sessions are as they were, or failed, and then the sink got one error.)
C12_ProcessErrorGoesOn ==
    [][\A t \in ServeThreads :
          (pc[t] = "process" /\ pc'[t] # "process") =>
              /\ pc'[t] = "read"
              /\ result'[t] = "none"
              /\ listen' = listen
              /\ conns' = conns
              /\ \A s \in Sess \ {cc[t]} :
                     /\ sessCancel'[s] = sessCancel[s]
                     /\ closeFunc'[s] = closeFunc[s]
              /\ \/ errorSink' = errorSink /\ sessCancel' = sessCancel
                 \/ errorSink' = errorSink + 1]_vars

\* the Process of peer b's datagram failed (keep-alive is off, so the error in
\* the sink is its error) while peer a's session is open and in the table, and
\* Serve is back at the read
C12_Witness ==
    /\ keepalive = "nil"
    /\ errorSink = 1
    /\ \E t \in ServeThreads : pc[t] = "read"
    /\ conns["a"] # Nil /\ ~sessCancel[conns["a"]] /\ closeFunc[conns["a"]] = "waitDone"
    /\ conns["b"] # Nil /\ sessCancel[conns["b"]]

\* C13, starting: the goroutine of a created session is started in the step that
\* follows its creation, there is no other step that starts one, and a datagram
\* that found its session goes straight to Process
C13_StartStep(t) ==
    /\ (pc[t] = "created" /\ pc'[t] # "created") =>
           /\ kaTask[cc[t]] = "none"
           /\ kaTask' = [kaTask EXCEPT ![cc[t]] = "running"]
    /\ (pc[t] = "getBody" /\ pc'[t] # "getBody" /\ conns[raddr[t]] # Nil) =>
           /\ pc'[t] = "process"
           /\ kaTask' = kaTask

C13_OnlyStart(s) ==
    (kaTask[s] # "running" /\ kaTask'[s] = "running") =>
        /\ kaTask[s] = "none"
        /\ \E t \in ServeThreads : pc[t] = "created" /\ created[t] /\ cc[t] = s

\* C13: when keep-alive is configured, exactly one keep-alive task is started for
\* each session the dispatcher creates (before the session's first Process call),
\* none is started for a datagram that found an existing session, and an error
\* returned by the task is forwarded to the error sink.
C13_KeepAlivePerSession ==
    /\ [][KeepAliveConfigured => \A t \in ServeThreads : C13_StartStep(t)]_vars
    /\ [][KeepAliveConfigured => \A s \in Sess : C13_OnlyStart(s)]_vars
    /\ [](KeepAliveConfigured =>
              \A s \in Sess : processCalls[s] > 0 => kaTask[s] # "none")
    /\ [][\A s \in Sess :
              (kaTask[s] = "running" /\ kaTask'[s] = "failed") =>
                  errorSink' = errorSink + 1]_vars

\* the keep-alive task of a session that processed two datagrams (the second
\* found it in the table) returned an error, which is the one error in the sink
C13_Witness ==
    /\ KeepAliveConfigured
    /\ errorSink = 1
    /\ \E s \in Sess : kaTask[s] = "failed" /\ processCalls[s] = 2

\* C14: conn() returns only after a Serve call has registered its listener or the
\* server context has been cancelled; whenever it returns while the server
\* context is not cancelled, its result is the non-nil listener registered by
\* Serve.
C14_ConnReturnsListener ==
    [][(connPc = "select" /\ connPc' = "done") =>
          /\ closedChans # {} \/ cancelled
          /\ ~cancelled => (connResult' # Nil /\ connResult' \in ServeThreads)]_vars

\* C15: Serve called with a configured block-size exponent above SZX1024 (6)
\* returns an error before registering the listener: the listener slot, the
\* started-rendezvous and the session table are unchanged and no datagram is
\* read.
C15_InvalidSZXRejected ==
    blockwiseSZX > SZX1024 =>
        /\ \A t \in ServeThreads :
               /\ pc[t] \in {"idle", "done"}
               /\ pc[t] = "done" => result[t] = "errInvalidSZX"
        /\ listen = Nil
        /\ chanId = 0 /\ closedChans = {}
        /\ \A k \in Keys : conns[k] = Nil
        /\ datagrams = 0 /\ nextSid = 0

\* both Serve calls on a server configured with exponent 7 have returned the error
C15_Witness ==
    /\ blockwiseSZX = SZX1024 + 1
    /\ \A t \in ServeThreads : pc[t] = "done" /\ result[t] = "errInvalidSZX"

\* a session on which Close was not called and whose close() has not run
NotClosed(s) == ~sessCancel[s] /\ closeFunc[s] \in {"none", "waitDone"}

\* C16: a session's on-close callback removes from the session table only the
\* entry that refers to that same session: a different session registered under
\* the same peer key, not closed by anyone, is never removed from the table by
\* another session's close.
C16_OnCloseRemovesOwnEntry ==
    [][\A s \in Sess :
          (closeFunc[s] = "onClose" /\ closeFunc'[s] = "done") =>
              \A k \in Keys :
                  (conns[k] # Nil /\ conns[k] # s /\ NotClosed(conns[k])) =>
                      conns'[k] = conns[k]]_vars

\* C17: any two consecutive GetMID calls (the atomic add puts concurrent calls in
\* an order), also across the 32-bit wrap-around of the counter, return different
\* message ids.
C17_ConsecutiveMIDsDiffer ==
    prevMID >= 0 => lastMID # prevMID

RECURSIVE SumTo(_, _)
SumTo(f, n) == IF n = 0 THEN 0 ELSE f[n] + SumTo(f, n - 1)
\* the Process calls that have returned
ProcessedCount == SumTo(processCalls, MaxDatagrams)
\* the Serve calls that hold a datagram they read and have not yet got back
\* from its Process
Holding == { t \in ServeThreads : Dispatching(t) }

\* C18: datagrams are handed to sessions strictly one at a time, in the order
\* they were read: at most one datagram is between its read and the return of
\* its Process, every datagram read before it has been processed, the session it
\* goes to is the one of its sender, and a read returns a datagram only when the
\* Process of every earlier datagram has returned (so the one read buffer is not
\* written while a Process runs on it).
C18_OneAtATime ==
    /\ [](/\ Cardinality(Holding) <= 1
          /\ datagrams = ProcessedCount + Cardinality(Holding)
          /\ \A t \in ServeThreads :
                 pc[t] \in {"created", "process"} => sessKey[cc[t]] = raddr[t])
    /\ [][datagrams' # datagrams =>
              /\ datagrams' = datagrams + 1
              /\ ProcessedCount = datagrams
              /\ Holding = {}
              /\ \E t \in ServeThreads : pc[t] = "read" /\ Holding' = {t}]_vars

\* the second datagram was read after the first one's Process returned and is
\* now at its own Process
C18_Witness ==
    /\ datagrams = 2
    /\ ProcessedCount = 1
    /\ \E t \in ServeThreads : pc[t] = "process"

\* C19: whenever a Serve call that registered a listener returns (its deferred
\* function ends), for whatever reason, the session table is empty, every
\* session the dispatcher created during that call has been closed (its close()
\* has run and its goroutines have ended), and the listener slot is nil.
C19_ServeReturnsClean ==
    [][\A t \in ServeThreads :
          (pc[t] = "deferListen" /\ pc'[t] = "done") =>
              /\ result'[t] \in {"nil", "readErr"}
              /\ \A k \in Keys : conns'[k] = Nil
              /\ listen' = Nil
              /\ \A s \in CreatedSessions :
                     sessOwner[s] = t =>
                         /\ closeFunc'[s] = "done"
                         /\ kaTask'[s] # "running"]_vars

\* a Serve call that created two sessions has returned the socket error (the
\* sessions had been closed, by a failed Process or a failed keep-alive ping)
C19_Witness ==
    \E t \in ServeThreads :
        /\ pc[t] = "done" /\ result[t] = "readErr"
        /\ nextSid = 2
        /\ \A s \in CreatedSessions : sessOwner[s] = t /\ closeFunc[s] = "done"
        /\ listen = Nil

=============================================================================
